---- MODULE Spec2Model ----
(***************************************************************************)
(* Model of dimaischenko/algo:                                             *)
(*   src/fuzzy-matching.cpp  - Aho-Corasick automaton over the fragments   *)
(*                             of a wildcard pattern and the streaming     *)
(*                             WildcardMatcher built on it;                *)
(*   src/fixedset-rev.cpp    - FixedSet, a two-level perfect hash set.     *)
(*                                                                         *)
(* A trie node is identified by its path from the root (a sequence of      *)
(* characters); the root is the empty path.  A size_t value v >= 2^63 is   *)
(* represented by the integer v - 2^64, so that unsigned subtraction is    *)
(* integer subtraction and a wrapped result shows as a negative number.    *)
(***************************************************************************)
EXTENDS Integers, Sequences, FiniteSets, TLC

\* ---------------------------------------------------------------- bounds
MaxPatternLen == 3
MaxTextLen == 3
MaxNumbers == 3
MaxQueries == 1
MaxVertices == 3

\* ------------------------------------------------------------ alphabets
Wildcard == "?"
Char == {"a", "b"}
PatternSym == Char \cup {Wildcard}
TextSym == Char \cup {Wildcard}

SeqsUpTo(S, n) == UNION {[1..k -> S] : k \in 0..n}
Patterns == SeqsUpTo(PatternSym, MaxPatternLen)

Range(s) == {s[i] : i \in DOMAIN s}

\* ------------------------------------------------------- automaton nodes
Root == <<>>
Null == <<"nullptr">>
EmptyMap == <<>>

NewNode ==
  [terminated_string_ids |-> <<>>,
   trie_transitions |-> EmptyMap,
   automaton_transitions_cache |-> EmptyMap,
   suffix_link |-> Null,
   terminal_link |-> Null]

VARIABLES
  pattern,        \* the pattern_with_wildcards given to BuildFor
  pc,             \* position inside BuildFor / Build, "ready" once built
  visitor,        \* which BfsVisitor the running BreadthFirstSearch has
  nodes,          \* the AutomatonNode objects owned by Automaton::root_
  words_, ids_,   \* AutomatonBuilder fields
  discovered_vertices, vertices_to_process, examined_edges,  \* BFS locals
  state_, words_occurrences_by_position_,
  number_of_words_, pattern_length_,                     \* WildcardMatcher
  text,           \* characters scanned since BuildFor or the last Reset
  fired,          \* text indices at which Scan called on_match
  occurrences,    \* the vector FindFuzzyMatches fills
  window,         \* the counters as tested by Scan, before the shift
  built,          \* the matcher as BuildFor returned it
  reused,         \* TRUE once the caller has called Reset
  fault,          \* a null dereference or out-of-range index happened
  fs,             \* the FixedSet program (src/fixedset-rev.cpp)
  traversal       \* a BreadthFirstSearch over a graph given by adjacency

vars == <<pattern, pc, visitor, nodes, words_, ids_, discovered_vertices,
          vertices_to_process, examined_edges, state_,
          words_occurrences_by_position_, number_of_words_, pattern_length_,
          text, fired, occurrences, window, built, reused, fault, fs, traversal>>

matcherVars == <<state_, words_occurrences_by_position_, text, fired,
                 occurrences, window, built, reused>>
bfsVars == <<discovered_vertices, vertices_to_process, examined_edges>>
builderVars == <<words_, ids_, number_of_words_, pattern_length_>>

\* ------------------------------------------------------------------ Split
\* Split grouping consecutive delimiters together.
RECURSIVE SplitLoop_Coalescing(_, _, _)
SplitLoop_Coalescing(string, i, splitted_strings) ==
  IF i > Len(string) THEN splitted_strings
  ELSE IF string[i] = Wildcard
       THEN SplitLoop_Coalescing(string, i + 1,
              IF i > 1 /\ string[i - 1] = Wildcard THEN splitted_strings
              ELSE Append(splitted_strings, <<>>))
       ELSE SplitLoop_Coalescing(string, i + 1,
              [splitted_strings EXCEPT ![Len(splitted_strings)] =
                 Append(@, string[i])])

RECURSIVE SplitLoop(_, _, _)
SplitLoop(string, i, splitted_strings) ==
  IF i > Len(string) THEN splitted_strings
  ELSE IF string[i] = Wildcard
       THEN SplitLoop(string, i + 1, Append(splitted_strings, <<>>))
       ELSE SplitLoop(string, i + 1,
              [splitted_strings EXCEPT ![Len(splitted_strings)] =
                 Append(@, string[i])])

Split(string) == SplitLoop(string, 1, << <<>> >>)

\* StringIds without the increment for the separator.
RECURSIVE StringIds_NoSeparator(_, _, _)
StringIds_NoSeparator(words, i, string_id) ==
  IF i > Len(words) THEN <<>>
  ELSE <<string_id + Len(words[i])>> \o
       StringIds_NoSeparator(words, i + 1, string_id + Len(words[i]))

\* The identifiers BuildFor hands to AutomatonBuilder::Add, in order.
RECURSIVE StringIds(_, _, _)
StringIds(words, i, string_id) ==
  IF i > Len(words) THEN <<>>
  ELSE <<string_id + Len(words[i])>> \o
       StringIds(words, i + 1, string_id + Len(words[i]) + 1)

\* -------------------------------------------------------------- BuildTrie
RECURSIVE AddStringLoop(_, _, _, _, _)
AddStringLoop(ns, last_node, string_id, string, i) ==
  IF i > Len(string)
  THEN [ns EXCEPT ![last_node].terminated_string_ids = Append(@, string_id)]
  ELSE LET label == string[i]
           child == Append(last_node, label)
       IN IF label \in DOMAIN ns[last_node].trie_transitions
          THEN AddStringLoop(ns, ns[last_node].trie_transitions[label],
                             string_id, string, i + 1)
          ELSE AddStringLoop(
                 (child :> NewNode) @@
                 [ns EXCEPT ![last_node].trie_transitions =
                    (label :> child) @@ @],
                 child, string_id, string, i + 1)

AddString(ns, string_id, string) ==
  AddStringLoop(ns, Root, string_id, string, 1)

RECURSIVE BuildTrie(_, _, _, _)
BuildTrie(words, ids, ns, i) ==
  IF i > Len(words) THEN ns
  ELSE BuildTrie(words, ids, AddString(ns, ids[i], words[i]), i + 1)

\* ------------------------------------------------- automaton transitions
GetTrieTransition(ns, node, character) ==
  IF character \in DOMAIN ns[node].trie_transitions
  THEN ns[node].trie_transitions[character]
  ELSE Null

\* GetAutomatonTransition caching the suffix link itself, not the
\* transition found from it.
RECURSIVE GetAutomatonTransition_CachesLink(_, _, _)
GetAutomatonTransition_CachesLink(ns, node, character) ==
  IF node = Null
  THEN [target |-> Null, nodes |-> ns, fault |-> TRUE]
  ELSE IF character \in DOMAIN ns[node].automaton_transitions_cache
  THEN [target |-> ns[node].automaton_transitions_cache[character],
        nodes |-> ns, fault |-> FALSE]
  ELSE LET emplaced == [ns EXCEPT ![node].automaton_transitions_cache =
                          (character :> Null) @@ @]
           target_node == GetTrieTransition(ns, node, character)
       IN IF target_node # Null
          THEN [target |-> target_node,
                nodes |-> [emplaced EXCEPT
                  ![node].automaton_transitions_cache[character] =
                     target_node],
                fault |-> FALSE]
          ELSE IF node = Root
          THEN [target |-> node,
                nodes |-> [emplaced EXCEPT
                  ![node].automaton_transitions_cache[character] = node],
                fault |-> FALSE]
          ELSE LET r == GetAutomatonTransition_CachesLink(emplaced,
                          ns[node].suffix_link, character)
               IN [target |-> r.target,
                   nodes |-> [r.nodes EXCEPT
                     ![node].automaton_transitions_cache[character] =
                        ns[node].suffix_link],
                   fault |-> r.fault]

\* GetAutomatonTransition falling back to the root at once instead of to
\* the suffix link.
RECURSIVE GetAutomatonTransition_ToRoot(_, _, _)
GetAutomatonTransition_ToRoot(ns, node, character) ==
  IF node = Null
  THEN [target |-> Null, nodes |-> ns, fault |-> TRUE]
  ELSE IF character \in DOMAIN ns[node].automaton_transitions_cache
  THEN [target |-> ns[node].automaton_transitions_cache[character],
        nodes |-> ns, fault |-> FALSE]
  ELSE LET emplaced == [ns EXCEPT ![node].automaton_transitions_cache =
                          (character :> Null) @@ @]
           target_node == GetTrieTransition(ns, node, character)
       IN IF target_node # Null
          THEN [target |-> target_node,
                nodes |-> [emplaced EXCEPT
                  ![node].automaton_transitions_cache[character] =
                     target_node],
                fault |-> FALSE]
          ELSE IF node = Root
          THEN [target |-> node,
                nodes |-> [emplaced EXCEPT
                  ![node].automaton_transitions_cache[character] = node],
                fault |-> FALSE]
          ELSE LET r == GetAutomatonTransition_ToRoot(emplaced, Root,
                                                      character)
               IN [target |-> r.target,
                   nodes |-> [r.nodes EXCEPT
                     ![node].automaton_transitions_cache[character] =
                        r.target],
                   fault |-> r.fault]

\* Result: the target node, the node store with the cache entries written,
\* and whether a null pointer was dereferenced on the way.
RECURSIVE GetAutomatonTransition(_, _, _)
GetAutomatonTransition(ns, node, character) ==
  IF node = Null
  THEN [target |-> Null, nodes |-> ns, fault |-> TRUE]
  ELSE IF character \in DOMAIN ns[node].automaton_transitions_cache
  THEN [target |-> ns[node].automaton_transitions_cache[character],
        nodes |-> ns, fault |-> FALSE]
  ELSE LET emplaced == [ns EXCEPT ![node].automaton_transitions_cache =
                          (character :> Null) @@ @]
           target_node == GetTrieTransition(ns, node, character)
       IN IF target_node # Null
          THEN [target |-> target_node,
                nodes |-> [emplaced EXCEPT
                  ![node].automaton_transitions_cache[character] =
                     target_node],
                fault |-> FALSE]
          ELSE IF node = Root
          THEN [target |-> node,
                nodes |-> [emplaced EXCEPT
                  ![node].automaton_transitions_cache[character] = node],
                fault |-> FALSE]
          ELSE LET r == GetAutomatonTransition(emplaced,
                          ns[node].suffix_link, character)
               IN [target |-> r.target,
                   nodes |-> [r.nodes EXCEPT
                     ![node].automaton_transitions_cache[character] =
                        r.target],
                   fault |-> r.fault]

\* OutgoingEdges: std::map iterates its keys in ascending order.
CharOrder == <<"a", "b">>
OutgoingEdges(ns, vertex) ==
  LET keys == SelectSeq(CharOrder,
                LAMBDA c : c \in DOMAIN ns[vertex].trie_transitions)
  IN [k \in 1..Len(keys) |->
        [source |-> vertex,
         target |-> ns[vertex].trie_transitions[keys[k]],
         character |-> keys[k]]]

GetTarget(edge) == edge.target

\* ------------------------------------------------------------- visitors
\* Each visitor hook returns the node store and the fault flag.
\* ExamineVertex that leaves the root's suffix link unset.
SuffixLinkCalculator_ExamineVertex_Nothing(ns, node) == ns

SuffixLinkCalculator_ExamineVertex(ns, node) ==
  IF node = Root THEN [ns EXCEPT ![node].suffix_link = node] ELSE ns

\* ExamineEdge copying the parent's suffix link without the transition.
SuffixLinkCalculator_ExamineEdge_ParentLink(ns, edge) ==
  LET origin == edge.target
      parent == edge.source
  IN IF ns[parent].suffix_link = parent
     THEN [nodes |-> [ns EXCEPT ![origin].suffix_link = parent],
           fault |-> FALSE]
     ELSE [nodes |-> [ns EXCEPT ![origin].suffix_link =
                        ns[parent].suffix_link],
           fault |-> FALSE]

\* ExamineEdge linking a child of the root to itself, not to the root.
SuffixLinkCalculator_ExamineEdge_SelfLink(ns, edge) ==
  LET origin == edge.target
      parent == edge.source
  IN IF ns[parent].suffix_link = parent
     THEN [nodes |-> [ns EXCEPT ![origin].suffix_link = origin],
           fault |-> FALSE]
     ELSE LET r == GetAutomatonTransition(ns, ns[parent].suffix_link,
                                          edge.character)
          IN [nodes |-> [r.nodes EXCEPT ![origin].suffix_link = r.target],
              fault |-> r.fault]

SuffixLinkCalculator_ExamineEdge(ns, edge) ==
  LET origin == edge.target
      parent == edge.source
  IN IF ns[parent].suffix_link = parent
     THEN [nodes |-> [ns EXCEPT ![origin].suffix_link = parent],
           fault |-> FALSE]
     ELSE LET r == GetAutomatonTransition(ns, ns[parent].suffix_link,
                                          edge.character)
          IN [nodes |-> [r.nodes EXCEPT ![origin].suffix_link = r.target],
              fault |-> r.fault]

\* DiscoverVertex that does not pass on the terminal link of suffix_parent.
TerminalLinkCalculator_DiscoverVertex_NoPropagation(ns, node) ==
  LET suffix_parent == ns[node].suffix_link
  IN IF node = suffix_parent
     THEN [nodes |-> ns, fault |-> FALSE]
     ELSE IF suffix_parent = Null
     THEN [nodes |-> ns, fault |-> TRUE]
     ELSE IF ns[suffix_parent].terminated_string_ids # <<>>
     THEN [nodes |-> [ns EXCEPT ![node].terminal_link = suffix_parent],
           fault |-> FALSE]
     ELSE [nodes |-> ns, fault |-> FALSE]

TerminalLinkCalculator_DiscoverVertex(ns, node) ==
  LET suffix_parent == ns[node].suffix_link
  IN IF node = suffix_parent
     THEN [nodes |-> ns, fault |-> FALSE]
     ELSE IF suffix_parent = Null
     THEN [nodes |-> ns, fault |-> TRUE]
     ELSE IF ns[suffix_parent].terminated_string_ids # <<>>
     THEN [nodes |-> [ns EXCEPT ![node].terminal_link = suffix_parent],
           fault |-> FALSE]
     ELSE [nodes |-> [ns EXCEPT ![node].terminal_link =
                        ns[suffix_parent].terminal_link],
           fault |-> FALSE]

DiscoverVertex(v, ns, node) ==
  IF v = "terminal" THEN TerminalLinkCalculator_DiscoverVertex(ns, node)
  ELSE [nodes |-> ns, fault |-> FALSE]

ExamineVertex(v, ns, node) ==
  IF v = "suffix" THEN SuffixLinkCalculator_ExamineVertex(ns, node) ELSE ns

ExamineEdge(v, ns, edge) ==
  IF v = "suffix" THEN SuffixLinkCalculator_ExamineEdge(ns, edge)
  ELSE [nodes |-> ns, fault |-> FALSE]

\* ------------------------------------------------------ GenerateMatches
\* GenerateMatches that does not follow the terminal links.
GenerateMatches_OnlyNode(ns, current_node) ==
  ns[current_node].terminated_string_ids

\* The identifiers passed to on_match, in call order.
RECURSIVE GenerateMatches(_, _)
GenerateMatches(ns, current_node) ==
  ns[current_node].terminated_string_ids \o
  (IF ns[current_node].terminal_link = Null THEN <<>>
   ELSE GenerateMatches(ns, ns[current_node].terminal_link))

\* ------------------------------------------------------- WildcardMatcher
\* UpdateWordOccurrences indexing the deque by id, not pattern_length_ - id.
RECURSIVE UpdateLoop_IndexById(_, _, _, _)
UpdateLoop_IndexById(counts, length, matched_ids, i) ==
  IF i > Len(matched_ids) THEN [counts |-> counts, fault |-> FALSE]
  ELSE LET index == matched_ids[i]
       IN IF index < 0 \/ index >= Len(counts)
          THEN [counts |-> counts, fault |-> TRUE]
          ELSE UpdateLoop_IndexById([counts EXCEPT ![index + 1] = @ + 1],
                                    length, matched_ids, i + 1)

\* counts is the deque; deque index k is sequence index k + 1.
RECURSIVE UpdateLoop(_, _, _, _)
UpdateLoop(counts, length, matched_ids, i) ==
  IF i > Len(matched_ids) THEN [counts |-> counts, fault |-> FALSE]
  ELSE LET index == length - matched_ids[i]
       IN IF index < 0 \/ index >= Len(counts)
          THEN [counts |-> counts, fault |-> TRUE]
          ELSE UpdateLoop([counts EXCEPT ![index + 1] = @ + 1],
                          length, matched_ids, i + 1)

UpdateWordOccurrences(ns, state, counts, length) ==
  UpdateLoop(counts, length, GenerateMatches(ns, state), 1)

\* The shift without its push_back.
ShiftWordOccurrencesCounters_PopOnly(counts) == Tail(counts)

\* The shift recycling the front counter instead of pushing a zero.
ShiftWordOccurrencesCounters_Rotate(counts) ==
  Tail(Append(counts, Head(counts)))

ShiftWordOccurrencesCounters(counts) == Tail(Append(counts, 0))

\* Reset without the update for the fragments that end before the text.
ResetMatcher_NoVirtualUpdate(ns, length) ==
  LET assigned == [k \in 1..(length + 1) |-> 0]
  IN [state_ |-> Root,
      window |-> assigned,
      counts |-> ShiftWordOccurrencesCounters(assigned),
      fault |-> FALSE]

\* Reset without the shift after its update.
ResetMatcher_NoShift(ns, length) ==
  LET assigned == [k \in 1..(length + 1) |-> 0]
      u == UpdateWordOccurrences(ns, Root, assigned, length)
  IN [state_ |-> Root,
      window |-> u.counts,
      counts |-> u.counts,
      fault |-> u.fault]

\* Reset as a function of the automaton and pattern length.
ResetMatcher(ns, length) ==
  LET assigned == [k \in 1..(length + 1) |-> 0]
      u == UpdateWordOccurrences(ns, Root, assigned, length)
  IN [state_ |-> Root,
      window |-> u.counts,
      counts |-> ShiftWordOccurrencesCounters(u.counts),
      fault |-> u.fault]

\* Scan as a function of the matcher; on_match is called iff .fire.
ScanMatcher(ns, state, counts, nwords, length, character) ==
  LET r == GetAutomatonTransition(ns, state, character)
      u == IF r.fault \/ r.target = Null
           THEN [counts |-> counts, fault |-> TRUE]
           ELSE UpdateWordOccurrences(r.nodes, r.target, counts, length)
  IN [nodes |-> r.nodes,
      state_ |-> r.target,
      window |-> u.counts,
      fire |-> (~u.fault /\ u.counts[1] = nwords),
      counts |-> ShiftWordOccurrencesCounters(u.counts),
      fault |-> u.fault]

\* ------------------------------------------------------------- FixedSet
modulo_ == 2000000001
minimal_number_ == -1000000000
number_of_buckets_factor_ == 2
total_buckets_size_factor_ == 10

\* Inputs and queries; all lie in [-10^9, 10^9].
NumberPool ==
  {minimal_number_, minimal_number_ + 1, minimal_number_ + 2, 1}
\* The (summand, factor) pairs the generator is let to draw; every subset of
\* NumberPool is sent to pairwise different slots by one of them.
DrawnPairs == {<<0, 1>>, <<1, 2>>}
DrawnHashes(limiter) ==
  {[summand |-> d[1], factor |-> d[2], limiter |-> limiter] :
     d \in DrawnPairs}

\* Hash::operator(), for limiter > 0 and minimal_number_ <= number.
HashValue(hash, number) ==
  LET key == number - minimal_number_
  IN ((hash.factor * key + hash.summand) % modulo_) % hash.limiter

EmptyElement == [number |-> 0, is_empty |-> TRUE]

\* Bucket::check_if_need_rehashing: TRUE iff two numbers share a key.
RECURSIVE CheckLoop(_, _, _, _)
CheckLoop(hash, numbers, i, elements_filling) ==
  IF i > Len(numbers) THEN FALSE
  ELSE LET key == HashValue(hash, numbers[i])
       IN IF key \in elements_filling THEN TRUE
          ELSE CheckLoop(hash, numbers, i + 1, elements_filling \cup {key})

check_if_need_rehashing(bucket, numbers) ==
  CheckLoop(bucket.hash_, numbers, 1, {})

\* The loop of Bucket::Initialize; slot k of elements_ is index k + 1.
RECURSIVE BucketFill(_, _, _, _)
BucketFill(hash, elements, numbers, i) ==
  IF i > Len(numbers) THEN elements
  ELSE BucketFill(hash,
         [elements EXCEPT ![HashValue(hash, numbers[i]) + 1] =
            [number |-> numbers[i], is_empty |-> FALSE]],
         numbers, i + 1)

Bucket_Contains(bucket, number) ==
  IF bucket.capacity_ = 0 THEN FALSE
  ELSE LET in_bucket_index == HashValue(bucket.hash_, number)
       IN ~(\/ bucket.elements_[in_bucket_index + 1].is_empty
            \/ bucket.elements_[in_bucket_index + 1].number # number)

\* The distribution loop of FixedSet::set_hash; bucket b is index b + 1.
RECURSIVE Distribute(_, _, _, _)
Distribute(hash, numbers, i, buckets_numbers) ==
  IF i > Len(numbers) THEN buckets_numbers
  ELSE Distribute(hash, numbers, i + 1,
         [buckets_numbers EXCEPT ![HashValue(hash, numbers[i]) + 1] =
            Append(@, numbers[i])])

RECURSIVE SquaredTotalSize(_, _)
SquaredTotalSize(buckets_numbers, i) ==
  IF i > Len(buckets_numbers) THEN 0
  ELSE Len(buckets_numbers[i]) * Len(buckets_numbers[i]) +
       SquaredTotalSize(buckets_numbers, i + 1)

\* The FixedSet program is idle while the matcher is modelled.
FsIdle == [pc |-> "idle"]

FsStart(numbers) ==
  [pc |-> "Initialize",
   numbers |-> numbers,
   number_of_buckets_ |-> 0,
   hash_ |-> [summand |-> 0, factor |-> 0, limiter |-> 0],
   buckets_ |-> <<>>,
   buckets_numbers |-> <<>>,
   bucket |-> [capacity_ |-> 0, elements_ |-> <<>>,
               hash_ |-> [summand |-> 0, factor |-> 0, limiter |-> 0]],
   queries |-> <<>>,
   answer |-> <<>>,
   fault |-> FALSE]

\* ------------------------------------------------------------------ Init
\* WildcardMatcher(), Automaton() and AutomatonBuilder() just constructed,
\* BuildFor about to run on some pattern.
MatcherConstructed ==
  /\ visitor = "none"
  /\ nodes = (Root :> NewNode)
  /\ words_ = <<>>
  /\ ids_ = <<>>
  /\ discovered_vertices = {}
  /\ vertices_to_process = <<>>
  /\ examined_edges = <<>>
  /\ state_ = Null
  /\ words_occurrences_by_position_ = <<>>
  /\ number_of_words_ = 0
  /\ pattern_length_ = 0
  /\ text = <<>>
  /\ fired = <<>>
  /\ occurrences = <<>>
  /\ window = <<>>
  /\ built = [nodes |-> (Root :> NewNode), state_ |-> Null, counts |-> <<>>]
  /\ reused = FALSE
  /\ fault = FALSE

\* ------------------------------------- graphs for BreadthFirstSearch
\* Vertices are numbers, a graph gives each vertex the set of targets of
\* its outgoing edges, and the origin is vertex 1.
Vertices == 1..MaxVertices
Graphs == [Vertices -> SUBSET Vertices]
origin_vertex == 1

TraversalIdle == [pc |-> "idle"]

\* The locals of BreadthFirstSearch at its entry, and the calls a
\* recording visitor has seen: pushes, DiscoverVertex and ExamineVertex
\* calls in call order.
TraversalStart(graph) ==
  [pc |-> "BreadthFirstSearch",
   graph |-> graph,
   discovered_vertices |-> {},
   vertices_to_process |-> <<>>,
   examined_edges |-> <<>>,
   pushed |-> <<>>,
   discovered |-> <<>>,
   examined |-> <<>>]

Init ==
  /\ pattern \in Patterns
  /\ pc = "BuildFor"
  /\ MatcherConstructed
  /\ fs = FsIdle
  /\ traversal = TraversalIdle

\* ----------------------------------------------------- BuildFor, Build
\* BuildFor up to and including Build's call of BuildTrie.
BuildForTrie ==
  /\ pc = "BuildFor" /\ ~fault
  /\ LET words == Split(pattern)
         ids == StringIds(words, 1, 0)
     IN /\ pattern_length_' = Len(pattern)
        /\ number_of_words_' = Len(words)
        /\ words_' = words
        /\ ids_' = ids
        /\ nodes' = BuildTrie(words, ids, nodes, 1)
  /\ visitor' = "suffix"
  /\ pc' = "bfs_begin"
  /\ UNCHANGED <<pattern, bfsVars, matcherVars, fault, fs, traversal>>

\* BreadthFirstSearch before its loop: push, DiscoverVertex, insert.
BfsBegin ==
  /\ pc = "bfs_begin" /\ ~fault
  /\ LET d == DiscoverVertex(visitor, nodes, Root)
     IN /\ nodes' = d.nodes
        /\ fault' = d.fault
  /\ vertices_to_process' = <<Root>>
  /\ discovered_vertices' = {Root}
  /\ examined_edges' = <<>>
  /\ pc' = "bfs_loop"
  /\ UNCHANGED <<pattern, visitor, builderVars, matcherVars, fs, traversal>>

\* One iteration of the while loop up to the edge loop: pop, ExamineVertex,
\* insert, OutgoingEdges.
BfsExamineVertex ==
  /\ pc = "bfs_loop" /\ ~fault
  /\ examined_edges = <<>>
  /\ vertices_to_process # <<>>
  /\ LET examined_vertex == Head(vertices_to_process)
         ns == ExamineVertex(visitor, nodes, examined_vertex)
     IN /\ vertices_to_process' = Tail(vertices_to_process)
        /\ nodes' = ns
        /\ discovered_vertices' = discovered_vertices \cup {examined_vertex}
        /\ examined_edges' = OutgoingEdges(ns, examined_vertex)
  /\ UNCHANGED <<pattern, pc, visitor, builderVars, matcherVars, fault, fs, traversal>>

\* One iteration of the edge loop: ExamineEdge, then push and
\* DiscoverVertex when the target is not in discovered_vertices.
BfsExamineEdge ==
  /\ pc = "bfs_loop" /\ ~fault
  /\ examined_edges # <<>>
  /\ LET examined_edge == Head(examined_edges)
         e == ExamineEdge(visitor, nodes, examined_edge)
         child_vertex == GetTarget(examined_edge)
         push == child_vertex \notin discovered_vertices
         d == IF push /\ ~e.fault
              THEN DiscoverVertex(visitor, e.nodes, child_vertex)
              ELSE e
     IN /\ nodes' = d.nodes
        /\ fault' = (e.fault \/ d.fault)
        /\ vertices_to_process' =
             IF push THEN Append(vertices_to_process, child_vertex)
             ELSE vertices_to_process
  /\ examined_edges' = Tail(examined_edges)
  /\ UNCHANGED <<pattern, pc, visitor, discovered_vertices, builderVars,
                 matcherVars, fs, traversal>>

\* The queue is empty: BuildSuffixLinks returns and BuildTerminalLinks
\* starts, or BuildTerminalLinks and with it Build returns.
BfsEnd ==
  /\ pc = "bfs_loop" /\ ~fault
  /\ examined_edges = <<>>
  /\ vertices_to_process = <<>>
  /\ IF visitor = "suffix"
     THEN visitor' = "terminal" /\ pc' = "bfs_begin"
     ELSE visitor' = "none" /\ pc' = "built"
  /\ discovered_vertices' = {}
  /\ UNCHANGED <<pattern, nodes, vertices_to_process, examined_edges,
                 builderVars, matcherVars, fault, fs, traversal>>

\* wmatcher.Reset() and the return of BuildFor.
BuildForReset ==
  /\ pc = "built" /\ ~fault
  /\ LET m == ResetMatcher(nodes, pattern_length_)
     IN /\ state_' = m.state_
        /\ words_occurrences_by_position_' = m.counts
        /\ window' = m.window
        /\ fault' = m.fault
        /\ built' = [nodes |-> nodes, state_ |-> m.state_,
                     counts |-> m.counts]
  /\ pc' = "ready"
  /\ UNCHANGED <<pattern, visitor, nodes, bfsVars, builderVars, text, fired,
                 occurrences, reused, fs, traversal>>

\* ----------------------------------------------------------- Reset, Scan
\* Reset that does not assign zeros to the counters.
Reset_KeepsCounters ==
  /\ pc = "ready" /\ ~fault
  /\ LET u == UpdateWordOccurrences(nodes, Root,
                words_occurrences_by_position_, pattern_length_)
     IN /\ state_' = Root
        /\ words_occurrences_by_position_' =
             ShiftWordOccurrencesCounters(u.counts)
        /\ window' = u.counts
        /\ fault' = u.fault
  /\ text' = <<>>
  /\ fired' = <<>>
  /\ occurrences' = <<>>
  /\ reused' = TRUE
  /\ UNCHANGED <<pattern, pc, visitor, nodes, bfsVars, builderVars, built,
                 fs, traversal>>

Reset ==
  /\ pc = "ready" /\ ~fault
  /\ LET m == ResetMatcher(nodes, pattern_length_)
     IN /\ state_' = m.state_
        /\ words_occurrences_by_position_' = m.counts
        /\ window' = m.window
        /\ fault' = m.fault
  /\ text' = <<>>
  /\ fired' = <<>>
  /\ occurrences' = <<>>
  /\ reused' = TRUE
  /\ UNCHANGED <<pattern, pc, visitor, nodes, bfsVars, builderVars, built,
                 fs, traversal>>

\* Scan(text[i], on_match) with i = Len(text), on_match being the lambda of
\* FindFuzzyMatches: occurrences.push_back(i + 1 - pattern_length).
Scan(character) ==
  /\ pc = "ready" /\ ~fault
  /\ Len(text) < MaxTextLen
  /\ LET i == Len(text)
         m == ScanMatcher(nodes, state_, words_occurrences_by_position_,
                          number_of_words_, pattern_length_, character)
     IN /\ nodes' = m.nodes
        /\ state_' = m.state_
        /\ words_occurrences_by_position_' = m.counts
        /\ window' = m.window
        /\ fault' = m.fault
        /\ fired' = IF m.fire THEN Append(fired, i) ELSE fired
        /\ occurrences' = IF m.fire
                          THEN Append(occurrences, i + 1 - Len(pattern))
                          ELSE occurrences
  /\ text' = Append(text, character)
  /\ UNCHANGED <<pattern, pc, visitor, bfsVars, builderVars, built, reused,
                 fs, traversal>>

ScanAny == \E character \in TextSym : Scan(character)

Next ==
  \/ BuildForTrie
  \/ BfsBegin
  \/ BfsExamineVertex
  \/ BfsExamineEdge
  \/ BfsEnd
  \/ BuildForReset
  \/ Reset
  \/ ScanAny

Spec == Init /\ [][Next]_vars

\* ----------------------------------------------------- FixedSet program
fuzzyVars == <<pattern, pc, visitor, nodes, bfsVars, builderVars,
               matcherVars, fault>>

\* check_existance_queries_in_numbers about to call Initialize(numbers).
InitFS ==
  /\ pattern = <<>>
  /\ pc = "idle"
  /\ MatcherConstructed
  /\ fs \in {FsStart(numbers) : numbers \in SeqsUpTo(NumberPool, MaxNumbers)}
  /\ traversal = TraversalIdle

\* FixedSet::Initialize up to its call of set_hash.
FsInitialize ==
  /\ fs.pc = "Initialize"
  /\ fs' = [fs EXCEPT
       !.number_of_buckets_ = Len(fs.numbers) * number_of_buckets_factor_,
       !.buckets_ = <<>>,
       !.pc = "set_hash"]
  /\ UNCHANGED <<fuzzyVars, traversal>>

\* One iteration of the loop of FixedSet::set_hash.
FsSetHash ==
  /\ fs.pc = "set_hash"
  /\ \E hash \in DrawnHashes(fs.number_of_buckets_) :
       LET assigned == [b \in 1..fs.number_of_buckets_ |-> <<>>]
           buckets_numbers == Distribute(hash, fs.numbers, 1, assigned)
           need_rehashing ==
             SquaredTotalSize(buckets_numbers, 1) >
               fs.number_of_buckets_ * total_buckets_size_factor_
       IN fs' = [fs EXCEPT
            !.hash_ = hash,
            !.buckets_numbers = buckets_numbers,
            !.pc = IF need_rehashing THEN "set_hash" ELSE "buckets"]
  /\ UNCHANGED <<fuzzyVars, traversal>>

\* Initialize's loop body up to the first check in Bucket::set_hash:
\* Bucket bucket(size * size), then bucket.Initialize begins.
FsBucketConstruct ==
  /\ fs.pc = "buckets"
  /\ Len(fs.buckets_) < fs.number_of_buckets_
  /\ LET bucket_index == Len(fs.buckets_)
         numbers == fs.buckets_numbers[bucket_index + 1]
         bucket_size == Len(numbers)
         capacity == bucket_size * bucket_size
     IN \E hash \in DrawnHashes(capacity) :
          LET bucket == [capacity_ |-> capacity,
                         elements_ |-> [k \in 1..capacity |-> EmptyElement],
                         hash_ |-> hash]
          IN fs' = [fs EXCEPT
               !.bucket = bucket,
               !.pc = IF check_if_need_rehashing(bucket, numbers)
                      THEN "bucket_set_hash" ELSE "bucket_fill"]
  /\ UNCHANGED <<fuzzyVars, traversal>>

\* One iteration of the loop of Bucket::set_hash.
FsBucketRehash ==
  /\ fs.pc = "bucket_set_hash"
  /\ LET numbers == fs.buckets_numbers[Len(fs.buckets_) + 1]
     IN \E hash \in DrawnHashes(fs.bucket.capacity_) :
          LET bucket == [fs.bucket EXCEPT !.hash_ = hash]
          IN fs' = [fs EXCEPT
               !.bucket = bucket,
               !.pc = IF check_if_need_rehashing(bucket, numbers)
                      THEN "bucket_set_hash" ELSE "bucket_fill"]
  /\ UNCHANGED <<fuzzyVars, traversal>>

\* The rest of Bucket::Initialize and buckets_.push_back(bucket).
FsBucketFill ==
  /\ fs.pc = "bucket_fill"
  /\ LET numbers == fs.buckets_numbers[Len(fs.buckets_) + 1]
         bucket == [fs.bucket EXCEPT
                      !.elements_ = BucketFill(fs.bucket.hash_, @, numbers, 1)]
     IN fs' = [fs EXCEPT
          !.buckets_ = Append(@, bucket),
          !.pc = "buckets"]
  /\ UNCHANGED <<fuzzyVars, traversal>>

\* The loop of Initialize ends and Initialize returns.
FsInitializeReturn ==
  /\ fs.pc = "buckets"
  /\ Len(fs.buckets_) = fs.number_of_buckets_
  /\ fs' = [fs EXCEPT !.pc = "initialized"]
  /\ UNCHANGED <<fuzzyVars, traversal>>

\* answer.push_back(fixed_set.Contains(query)).  With limiter 0 the hash
\* divides by zero: the call may trap, or return either value.
FsContains(query) ==
  /\ fs.pc = "initialized"
  /\ Len(fs.queries) < MaxQueries
  /\ IF fs.hash_.limiter = 0
     THEN \E outcome \in {"trap", "true", "false"} :
            fs' = IF outcome = "trap"
                  THEN [fs EXCEPT !.fault = TRUE, !.pc = "trapped"]
                  ELSE [fs EXCEPT !.fault = TRUE,
                          !.queries = Append(@, query),
                          !.answer = Append(@, outcome = "true")]
     ELSE LET bucket_index == HashValue(fs.hash_, query)
          IN fs' = [fs EXCEPT
               !.queries = Append(@, query),
               !.answer = Append(@,
                  Bucket_Contains(fs.buckets_[bucket_index + 1], query))]
  /\ UNCHANGED <<fuzzyVars, traversal>>

FsContainsAny == \E query \in NumberPool : FsContains(query)

NextFS ==
  \/ FsInitialize
  \/ FsSetHash
  \/ FsBucketConstruct
  \/ FsBucketRehash
  \/ FsBucketFill
  \/ FsInitializeReturn
  \/ FsContainsAny

SpecFS == InitFS /\ [][NextFS]_vars

\* The generator returns the pair d in this step of a rehash loop.
DrawsPair(hash, d) == hash.summand = d[1] /\ hash.factor = d[2]
FsSetHashDraw(d) == FsSetHash /\ DrawsPair(fs'.hash_, d)
FsBucketRehashDraw(d) == FsBucketRehash /\ DrawsPair(fs'.bucket.hash_, d)

\* The program keeps running, and a rehash loop that runs for ever gets
\* every pair the generator can draw.
FairFS ==
  /\ WF_vars(FsInitialize)
  /\ WF_vars(FsBucketConstruct)
  /\ WF_vars(FsBucketFill)
  /\ WF_vars(FsInitializeReturn)
  /\ \A d \in DrawnPairs : /\ SF_vars(FsSetHashDraw(d))
                           /\ SF_vars(FsBucketRehashDraw(d))

SpecFSFair == InitFS /\ [][NextFS]_vars /\ FairFS

\* ------------------------------ BreadthFirstSearch over a general graph
\* The edges leaving vertex, by ascending target.
RECURSIVE EdgesTo(_, _)
EdgesTo(vertex, targets) ==
  IF targets = {} THEN <<>>
  ELSE LET least == CHOOSE t \in targets : \A u \in targets : t <= u
       IN <<[source |-> vertex, target |-> least]>> \o
          EdgesTo(vertex, targets \ {least})

GraphOutgoingEdges(graph, vertex) == EdgesTo(vertex, graph[vertex])

InitBFS ==
  /\ pattern = <<>>
  /\ pc = "idle"
  /\ MatcherConstructed
  /\ fs = FsIdle
  /\ traversal \in {TraversalStart(graph) : graph \in Graphs}

\* The statements before the while loop: push the origin, DiscoverVertex,
\* insert.
TraverseBegin ==
  /\ traversal.pc = "BreadthFirstSearch"
  /\ traversal' = [traversal EXCEPT
       !.vertices_to_process = <<origin_vertex>>,
       !.pushed = <<origin_vertex>>,
       !.discovered = <<origin_vertex>>,
       !.discovered_vertices = {origin_vertex},
       !.pc = "loop"]
  /\ UNCHANGED <<fuzzyVars, fs>>

\* One iteration of the while loop up to the edge loop.
TraverseExamineVertex ==
  /\ traversal.pc = "loop"
  /\ traversal.examined_edges = <<>>
  /\ traversal.vertices_to_process # <<>>
  /\ LET examined_vertex == Head(traversal.vertices_to_process)
     IN traversal' = [traversal EXCEPT
          !.vertices_to_process = Tail(@),
          !.examined = Append(@, examined_vertex),
          !.discovered_vertices = @ \cup {examined_vertex},
          !.examined_edges =
             GraphOutgoingEdges(traversal.graph, examined_vertex)]
  /\ UNCHANGED <<fuzzyVars, fs>>

\* One iteration of the edge loop: the target is pushed and passed to
\* DiscoverVertex when it is not in discovered_vertices; nothing is
\* inserted into discovered_vertices here.
TraverseExamineEdge ==
  /\ traversal.pc = "loop"
  /\ traversal.examined_edges # <<>>
  /\ LET child_vertex == GetTarget(Head(traversal.examined_edges))
     IN traversal' =
          IF child_vertex \notin traversal.discovered_vertices
          THEN [traversal EXCEPT
                  !.examined_edges = Tail(@),
                  !.vertices_to_process = Append(@, child_vertex),
                  !.pushed = Append(@, child_vertex),
                  !.discovered = Append(@, child_vertex)]
          ELSE [traversal EXCEPT !.examined_edges = Tail(@)]
  /\ UNCHANGED <<fuzzyVars, fs>>

\* The queue is empty: BreadthFirstSearch returns.
TraverseReturn ==
  /\ traversal.pc = "loop"
  /\ traversal.examined_edges = <<>>
  /\ traversal.vertices_to_process = <<>>
  /\ traversal' = [traversal EXCEPT !.pc = "returned"]
  /\ UNCHANGED <<fuzzyVars, fs>>

NextBFS ==
  \/ TraverseBegin
  \/ TraverseExamineVertex
  \/ TraverseExamineEdge
  \/ TraverseReturn

SpecBFS == InitBFS /\ [][NextBFS]_vars

NoFault == ~fault

\* ------------------------------------------------------- reference notions
\* P occurs in T at 0-based position p, wildcards matching any character.
MatchesAt(P, T, p) ==
  \A j \in 1..Len(P) : P[j] = Wildcard \/ P[j] = T[p + j]

FuzzyPositions(P, T) ==
  {p \in 0..(Len(T) - Len(P)) : MatchesAt(P, T, p)}

LiteralPositions(P, T) ==
  {p \in 0..(Len(T) - Len(P)) : SubSeq(T, p + 1, p + Len(P)) = P}

StrictlyAscending(s) ==
  \A i, j \in DOMAIN s : i < j => s[i] < s[j]

\* A matcher that BuildFor returned and on which Reset was never called.
Fresh == pc = "ready" /\ ~reused

\* C1: for a non-empty pattern, FindFuzzyMatches returns the strictly
\* ascending list of exactly the positions where the pattern occurs with
\* the wildcards matching any character.
C1_FuzzyMatchesExact ==
  (Fresh /\ Len(pattern) >= 1) =>
     /\ StrictlyAscending(occurrences)
     /\ Range(occurrences) = FuzzyPositions(pattern, text)

\* Two overlapping matches of a pattern that has a wildcard and a letter.
C1_Witness ==
  /\ Fresh
  /\ pattern = <<"a", Wildcard>>
  /\ text = <<"a", "a", "b">>
  /\ occurrences = <<0, 1>>

\* C2: for a pattern without wildcards the reported positions are exactly
\* the start positions of the pattern as a literal substring of the text.
C2_LiteralSubstring ==
  (Fresh /\ Wildcard \notin Range(pattern)) =>
     Range(occurrences) = LiteralPositions(pattern, text)

\* C2 for the patterns of length at least one.
C2_NonEmptyLiteral ==
  (Fresh /\ Wildcard \notin Range(pattern) /\ Len(pattern) >= 1) =>
     Range(occurrences) = LiteralPositions(pattern, text)

\* C3: a pattern of k >= 1 wildcards matches a text of length n >= k at
\* exactly the positions 0 .. n - k.
C3_AllWildcards ==
  (Fresh /\ Len(pattern) >= 1 /\ Range(pattern) = {Wildcard}
         /\ Len(text) >= Len(pattern)) =>
     occurrences = [i \in 1..(Len(text) - Len(pattern) + 1) |-> i - 1]

C3_Witness ==
  /\ Fresh
  /\ pattern = <<Wildcard, Wildcard>>
  /\ Len(text) = 3
  /\ occurrences = <<0, 1>>

\* C4: for the empty pattern every text position 0 .. n-1 is reported.
C4_EmptyPatternAllPositions ==
  (Fresh /\ pattern = <<>>) =>
     \A p \in 0..(Len(text) - 1) : p \in Range(occurrences)

\* C5: for a pattern of length L >= 1, on_match never fires at a text index
\* below L - 1, so i + 1 - L does not wrap and a text shorter than the
\* pattern gives no match.
C5_NoEarlyMatch ==
  (pc = "ready" /\ Len(pattern) >= 1) =>
     /\ \A k \in DOMAIN fired : fired[k] >= Len(pattern) - 1
     /\ \A k \in DOMAIN occurrences : occurrences[k] >= 0
     /\ (Len(text) < Len(pattern) => occurrences = <<>>)

C5_Witness ==
  /\ pc = "ready"
  /\ Len(pattern) >= 2
  /\ fired # <<>>
  /\ fired[1] = Len(pattern) - 1

\* on_match indices of a matcher just returned by BuildFor that scans txt.
RECURSIVE FreshRun(_, _, _, _, _)
FreshRun(ns, state, counts, txt, i) ==
  IF i > Len(txt) THEN <<>>
  ELSE LET m == ScanMatcher(ns, state, counts, number_of_words_,
                            pattern_length_, txt[i])
       IN (IF m.fire THEN <<i - 1>> ELSE <<>>) \o
          FreshRun(m.nodes, m.state_, m.counts, txt, i + 1)

\* C6: after Reset, whatever was scanned before, scanning a text fires
\* on_match at the indices at which a freshly built matcher fires, and
\* Reset itself restores the cursor and the counters of the built matcher.
C6_ResetLikeFresh ==
  (pc = "ready" /\ reused) =>
     /\ fired = FreshRun(built.nodes, built.state_, built.counts, text, 1)
     /\ (text = <<>> =>
           /\ state_ = built.state_
           /\ words_occurrences_by_position_ = built.counts)

\* A reset matcher has matched again; its cache holds a transition for a
\* character that is not in the text scanned since Reset, so the entry was
\* left by a scan before Reset.
C6_Witness ==
  /\ pc = "ready"
  /\ reused
  /\ Len(text) >= 2
  /\ fired # <<>>
  /\ \E n \in DOMAIN nodes :
       \E c \in DOMAIN nodes[n].automaton_transitions_cache :
          /\ c \notin Range(text)
          /\ c \notin DOMAIN built.nodes[n].automaton_transitions_cache

\* The transition function without the cache (the recursive definition).
RECURSIVE Transition(_, _, _)
Transition(ns, node, character) ==
  IF character \in DOMAIN ns[node].trie_transitions
  THEN ns[node].trie_transitions[character]
  ELSE IF node = Root THEN Root
  ELSE Transition(ns, ns[node].suffix_link, character)

BuildReturned == pc \in {"built", "ready"}

StructureUnchanged ==
  /\ DOMAIN nodes' = DOMAIN nodes
  /\ \A n \in DOMAIN nodes :
       /\ nodes'[n].trie_transitions = nodes[n].trie_transitions
       /\ nodes'[n].terminated_string_ids = nodes[n].terminated_string_ids
       /\ nodes'[n].suffix_link = nodes[n].suffix_link
       /\ nodes'[n].terminal_link = nodes[n].terminal_link
       /\ \A c \in DOMAIN nodes[n].automaton_transitions_cache :
            /\ c \in DOMAIN nodes'[n].automaton_transitions_cache
            /\ nodes'[n].automaton_transitions_cache[c] =
                 nodes[n].automaton_transitions_cache[c]

CacheIsMemo ==
  \A n \in DOMAIN nodes :
     /\ \A c \in DOMAIN nodes[n].automaton_transitions_cache :
          nodes[n].automaton_transitions_cache[c] = Transition(nodes, n, c)
     /\ \A c \in TextSym :
          GetAutomatonTransition(nodes, n, c).target = Transition(nodes, n, c)

\* C7: once Build has returned, no step changes a node's trie children,
\* terminated ids, suffix link or terminal link, a cache entry once written
\* keeps its value, and Next gives the node of the uncached definition
\* whether or not the entry is cached.
C7_AutomatonImmutable ==
  /\ [][BuildReturned => StructureUnchanged]_vars
  /\ [](BuildReturned => CacheIsMemo)

\* A scan has cached, at a non-root node, a transition found by falling
\* back along the suffix link.
C7_Witness ==
  /\ pc = "ready"
  /\ nodes # built.nodes
  /\ \E n \in DOMAIN nodes \ {Root} :
       \E c \in DOMAIN nodes[n].automaton_transitions_cache :
          /\ c \notin DOMAIN nodes[n].trie_transitions
          /\ c \notin DOMAIN built.nodes[n].automaton_transitions_cache
          /\ nodes[n].automaton_transitions_cache[c] # Root

\* Number of fragments that the text scanned so far supports for the
\* alignment of the pattern that ends k characters after the current one.
SupportedFragments(k) ==
  LET t == Len(text)
      L == pattern_length_
  IN Cardinality({j \in 1..Len(words_) :
       /\ ids_[j] <= L - k
       /\ LET e == t + k - L + ids_[j]
              s == e - Len(words_[j])
          IN s >= 0 /\ SubSeq(text, s + 1, e) = words_[j]})

\* C9: after UpdateWordOccurrences and before the shift, slot k of the
\* window holds the number of fragments j with id_j <= L - k that occur in
\* the text at offsets [t + k - L + s_j, t + k - L + id_j), s_j >= L - k - t.
C9_WindowInvariant ==
  pc = "ready" =>
    /\ Len(window) = pattern_length_ + 1
    /\ \A k \in 0..pattern_length_ : window[k + 1] = SupportedFragments(k)

\* Two fragments counted in slot 0 and another alignment under way.
C9_Witness ==
  /\ pc = "ready"
  /\ Len(text) >= 2
  /\ number_of_words_ >= 2
  /\ window[1] = 2
  /\ \E k \in 2..Len(window) : window[k] >= 1

RECURSIVE SumSeq(_)
SumSeq(s) == IF s = <<>> THEN 0 ELSE Head(s) + SumSeq(Tail(s))

\* C10: every counter is at most number_of_words_, so the counters sum to
\* at most number_of_words_ * (pattern_length_ + 1).
C10_CountersBounded ==
  /\ \A k \in DOMAIN words_occurrences_by_position_ :
       words_occurrences_by_position_[k] <= number_of_words_
  /\ \A k \in DOMAIN window : window[k] <= number_of_words_
  /\ SumSeq(window) <= number_of_words_ * (pattern_length_ + 1)
  /\ SumSeq(words_occurrences_by_position_) <=
       number_of_words_ * (pattern_length_ + 1)

\* The bound is attained by a slot while another slot is not empty.
C10_Witness ==
  /\ pc = "ready"
  /\ text # <<>>
  /\ number_of_words_ >= 2
  /\ \E k \in DOMAIN window : window[k] = number_of_words_
  /\ SumSeq(window) > number_of_words_

PairwiseDistinct(s) == \A i, j \in DOMAIN s : i # j => s[i] # s[j]

\* C8: after Initialize on pairwise distinct numbers, Contains(x) returns
\* true if and only if x is one of the numbers.
C8_ContainsIffMember ==
  (fs.pc \in {"initialized", "trapped"} /\ PairwiseDistinct(fs.numbers)) =>
     /\ ~fs.fault
     /\ \A i \in DOMAIN fs.answer :
          fs.answer[i] = (fs.queries[i] \in Range(fs.numbers))

\* C8 for the vectors that have at least one number.
C8_NonEmptyContainsIffMember ==
  (/\ fs.pc \in {"initialized", "trapped"}
   /\ PairwiseDistinct(fs.numbers)
   /\ fs.numbers # <<>>) =>
     /\ ~fs.fault
     /\ \A i \in DOMAIN fs.answer :
          fs.answer[i] = (fs.queries[i] \in Range(fs.numbers))

\* C11: the counter window has length pattern_length_ + 1 after BuildFor,
\* Reset and Scan, and every index pattern_length_ - id that
\* UpdateWordOccurrences can write lies in 0 .. pattern_length_ (no
\* out-of-range access happens).
C11_WindowInBounds ==
  /\ ~fault
  /\ pc = "ready" =>
       /\ Len(words_occurrences_by_position_) = pattern_length_ + 1
       /\ Len(window) = pattern_length_ + 1
  /\ \A n \in DOMAIN nodes :
       \A k \in DOMAIN nodes[n].terminated_string_ids :
          /\ pattern_length_ - nodes[n].terminated_string_ids[k] >= 0
          /\ pattern_length_ - nodes[n].terminated_string_ids[k]
               <= pattern_length_

\* Empty fragments with id 0 and id pattern_length_ have been counted, in
\* the last and in the first slot.
C11_Witness ==
  /\ pc = "ready"
  /\ text # <<>>
  /\ Len(pattern) >= 2
  /\ pattern[1] = Wildcard
  /\ pattern[Len(pattern)] = Wildcard
  /\ window[1] >= 1
  /\ window[pattern_length_ + 1] >= 1

RECURSIVE SumLen(_, _)
SumLen(words, j) == IF j = 0 THEN 0 ELSE Len(words[j]) + SumLen(words, j - 1)

\* C12: BuildFor splits the pattern into (number of wildcards + 1)
\* fragments, adjacent wildcards giving empty fragments, and fragment j gets
\* as identifier its exclusive end offset in the pattern; the identifiers
\* are strictly increasing and the last one is the pattern length.
C12_FragmentsAndIds ==
  pc # "BuildFor" =>
    LET wildcards == {i \in DOMAIN pattern : pattern[i] = Wildcard}
        n == Len(words_)
    IN /\ n = Cardinality(wildcards) + 1
       /\ number_of_words_ = n
       /\ Len(ids_) = n
       /\ pattern_length_ = Len(pattern)
       /\ \A j \in 1..n :
            /\ ids_[j] = SumLen(words_, j) + (j - 1)
            /\ Wildcard \notin Range(words_[j])
            /\ words_[j] =
                 SubSeq(pattern, ids_[j] - Len(words_[j]) + 1, ids_[j])
       /\ \A j \in 1..(n - 1) :
            /\ ids_[j] < ids_[j + 1]
            /\ pattern[ids_[j] + 1] = Wildcard
       /\ ids_[n] = Len(pattern)

\* Adjacent wildcards: "a??" gives "a", "", "" with identifiers 1, 2, 3.
C12_Witness ==
  /\ pc = "ready"
  /\ pattern = <<"a", Wildcard, Wildcard>>
  /\ words_ = << <<"a">>, <<>>, <<>> >>
  /\ ids_ = <<1, 2, 3>>

\* ------------------------------------------- reference notions on paths
Suffixes(p) == {SubSeq(p, k, Len(p)) : k \in 1..(Len(p) + 1)}
ProperSuffixes(p) == {SubSeq(p, k, Len(p)) : k \in 2..(Len(p) + 1)}
IsSuffix(s, p) == s \in Suffixes(p)
Longest(S) == CHOOSE s \in S : \A t \in S : Len(t) <= Len(s)

\* The node whose path is the longest suffix of p that is a trie path.
LongestSuffixNode(ns, p) == Longest(Suffixes(p) \cap DOMAIN ns)

\* The suffix link a node has to end with.
FinalSuffixLink(ns, n) ==
  IF n = Root THEN Root ELSE Longest(ProperSuffixes(n) \cap DOMAIN ns)

\* C13: after Build the root's suffix link is the root and every other
\* node's suffix link is the node of the longest proper suffix of its path
\* that is a trie path; none is null.
C13_SuffixLinks ==
  BuildReturned =>
    /\ nodes[Root].suffix_link = Root
    /\ \A n \in DOMAIN nodes :
         /\ nodes[n].suffix_link # Null
         /\ nodes[n].suffix_link = FinalSuffixLink(nodes, n)

\* A suffix link that is not the root, in a trie with an empty fragment.
C13_Witness ==
  /\ BuildReturned
  /\ nodes[Root].terminated_string_ids # <<>>
  /\ \E n \in DOMAIN nodes : n # Root /\ nodes[n].suffix_link # Root

RECURSIVE ChainFirstTerminal(_, _)
ChainFirstTerminal(ns, s) ==
  IF ns[s].terminated_string_ids # <<>> THEN s
  ELSE IF s = Root THEN Null
  ELSE ChainFirstTerminal(ns, ns[s].suffix_link)

\* First node with terminated ids on the suffix chain of n, n excluded.
FirstTerminalOnChain(ns, n) ==
  IF n = Root THEN Null ELSE ChainFirstTerminal(ns, ns[n].suffix_link)

RECURSIVE TerminalChainEnd(_, _)
TerminalChainEnd(ns, n) ==
  IF ns[n].terminal_link = Null THEN n
  ELSE TerminalChainEnd(ns, ns[n].terminal_link)

\* C14: after Build terminal_link(n) is the first node with terminated ids
\* on the suffix chain that starts at suffix_link(n), null when there is
\* none; the root's is null, and with an empty fragment every terminal
\* chain ends at the root.
C14_TerminalLinks ==
  BuildReturned =>
    /\ nodes[Root].terminal_link = Null
    /\ \A n \in DOMAIN nodes :
         nodes[n].terminal_link = FirstTerminalOnChain(nodes, n)
    /\ (nodes[Root].terminated_string_ids # <<>> =>
          \A n \in DOMAIN nodes : TerminalChainEnd(nodes, n) = Root)

\* A terminal link that was passed on: it is neither null nor the suffix
\* link of its node.
C14_Witness ==
  /\ BuildReturned
  /\ \E n \in DOMAIN nodes :
       /\ nodes[n].terminal_link # Null
       /\ nodes[n].terminal_link # nodes[n].suffix_link

\* C15: GetAutomatonTransition(v, c) is the node of the longest suffix of
\* path(v).c that is a trie path and agrees with the uncached recursion;
\* this holds of the entries cached while BuildSuffixLinks runs; after any
\* scanned text the cursor is the node of the longest suffix of the text
\* that is a trie path.
C15_TransitionIsLongestSuffix ==
  /\ \A n \in DOMAIN nodes :
       \A c \in DOMAIN nodes[n].automaton_transitions_cache :
          nodes[n].automaton_transitions_cache[c] =
            LongestSuffixNode(nodes, Append(n, c))
  /\ BuildReturned =>
       \A n \in DOMAIN nodes : \A c \in TextSym :
          /\ GetAutomatonTransition(nodes, n, c).target =
               LongestSuffixNode(nodes, Append(n, c))
          /\ Transition(nodes, n, c) =
               LongestSuffixNode(nodes, Append(n, c))
  /\ pc = "ready" => state_ = LongestSuffixNode(nodes, text)

\* BuildSuffixLinks has cached a transition while a node's suffix link is
\* still unset.
C15_Witness ==
  /\ pc = "bfs_loop"
  /\ visitor = "suffix"
  /\ \E n \in DOMAIN nodes : nodes[n].automaton_transitions_cache # EmptyMap
  /\ \E n \in DOMAIN nodes : nodes[n].suffix_link = Null

\* C16: GenerateMatches at node v calls on_match once for each fragment
\* that is a suffix of path(v) and for no other identifier, and it ends:
\* a terminal link leads to a node of smaller depth.
C16_GenerateMatchesExact ==
  BuildReturned =>
    /\ \A n \in DOMAIN nodes :
         nodes[n].terminal_link # Null =>
           /\ nodes[n].terminal_link \in DOMAIN nodes
           /\ Len(nodes[n].terminal_link) < Len(n)
    /\ \A n \in DOMAIN nodes :
         LET matched == GenerateMatches(nodes, n)
             ending == {j \in 1..Len(words_) : IsSuffix(words_[j], n)}
         IN /\ PairwiseDistinct(matched)
            /\ Len(matched) = Cardinality(ending)
            /\ Range(matched) = {ids_[j] : j \in ending}

\* The cursor is at a node that reports its own fragment and, through the
\* terminal link, the empty fragment of the root.
C16_Witness ==
  /\ pc = "ready"
  /\ state_ # Root
  /\ nodes[state_].terminated_string_ids # <<>>
  /\ nodes[Root].terminated_string_ids # <<>>
  /\ Len(GenerateMatches(nodes, state_)) >= 2

\* Number of recursive calls the uncached transition makes from node.
RECURSIVE FallbackSteps(_, _, _)
FallbackSteps(ns, node, character) ==
  IF character \in DOMAIN ns[node].trie_transitions \/ node = Root THEN 0
  ELSE 1 + FallbackSteps(ns, ns[node].suffix_link, character)

\* C19: in a built automaton the suffix link of a non-root node has
\* smaller depth than the node, so the fallback of GetAutomatonTransition
\* reaches the root within depth(node) steps.
C19_FallbackTerminates ==
  BuildReturned =>
    /\ \A n \in DOMAIN nodes \ {Root} :
         /\ nodes[n].suffix_link \in DOMAIN nodes
         /\ Len(nodes[n].suffix_link) < Len(n)
    /\ nodes[Root].suffix_link = Root
    /\ \A n \in DOMAIN nodes : \A c \in TextSym :
         FallbackSteps(nodes, n, c) <= Len(n)

\* A fallback of two steps: from a node of depth two to the root.
C19_Witness ==
  /\ pc = "ready"
  /\ \E n \in DOMAIN nodes : \E c \in TextSym :
       FallbackSteps(nodes, n, c) = 2

\* The nodes the call GetAutomatonTransition(node, root, character) visits.
RECURSIVE VisitedNodes(_, _, _)
VisitedNodes(ns, node, character) ==
  IF node = Null THEN <<>>
  ELSE IF \/ character \in DOMAIN ns[node].automaton_transitions_cache
          \/ GetTrieTransition(ns, node, character) # Null
          \/ node = Root
  THEN <<node>>
  ELSE <<node>> \o VisitedNodes(ns, ns[node].suffix_link, character)

\* C18: during Build the traversal goes level by level and no link is read
\* before it is final: when SuffixLinkCalculator::ExamineEdge is about to
\* run, the parent's suffix link and the suffix link of every node the
\* transition will visit have their final, non-null value; when
\* TerminalLinkCalculator::DiscoverVertex(n) is about to run, the terminal
\* link of n's suffix link has its final value.
C18_LinksFinalWhenRead ==
  /\ ~fault
  /\ (pc = "bfs_begin" /\ visitor = "terminal") =>
       /\ nodes[Root].suffix_link = Root
       /\ nodes[Root].terminal_link = FirstTerminalOnChain(nodes, Root)
  /\ pc = "bfs_loop" =>
       /\ \A i, j \in DOMAIN vertices_to_process :
            i < j => /\ Len(vertices_to_process[i]) <=
                          Len(vertices_to_process[j])
                     /\ Len(vertices_to_process[j]) <=
                          Len(vertices_to_process[1]) + 1
       /\ \A k \in DOMAIN examined_edges :
            \A i \in DOMAIN vertices_to_process :
               /\ Len(examined_edges[k].source) <=
                    Len(vertices_to_process[i])
               /\ Len(vertices_to_process[i]) <=
                    Len(examined_edges[k].source) + 1
       /\ (examined_edges # <<>> /\ visitor = "suffix") =>
            LET parent == Head(examined_edges).source
                link == nodes[parent].suffix_link
            IN /\ link # Null
               /\ link = FinalSuffixLink(nodes, parent)
               /\ link # parent =>
                    \A x \in Range(VisitedNodes(nodes, link,
                                     Head(examined_edges).character)) :
                       /\ nodes[x].suffix_link # Null
                       /\ nodes[x].suffix_link = FinalSuffixLink(nodes, x)
       /\ (/\ examined_edges # <<>>
           /\ visitor = "terminal"
           /\ GetTarget(Head(examined_edges)) \notin discovered_vertices) =>
            LET s == nodes[GetTarget(Head(examined_edges))].suffix_link
            IN /\ s # Null
               /\ nodes[s].terminal_link = FirstTerminalOnChain(nodes, s)

\* ExamineEdge is about to run a transition that falls back over two nodes.
C18_Witness ==
  /\ pc = "bfs_loop" /\ visitor = "suffix" /\ examined_edges # <<>>
  /\ LET parent == Head(examined_edges).source
     IN /\ nodes[parent].suffix_link # parent
        /\ Len(VisitedNodes(nodes, nodes[parent].suffix_link,
                            Head(examined_edges).character)) >= 2

\* C20: after Initialize with an empty vector every Contains call is well
\* defined and returns false: no hash is evaluated with limiter 0 and no
\* bucket outside buckets_ is indexed.
C20_EmptyContainsFalse ==
  fs.pc \in {"initialized", "trapped"} /\ fs.numbers = <<>> =>
     /\ fs.pc # "trapped"
     /\ ~fs.fault
     /\ \A i \in DOMAIN fs.answer : fs.answer[i] = FALSE

\* The vertices reachable from the origin.
RECURSIVE ReachableFrom(_, _)
ReachableFrom(graph, S) ==
  LET T == S \cup UNION {graph[v] : v \in S}
  IN IF T = S THEN S ELSE ReachableFrom(graph, T)

Calls(s, v) == Cardinality({i \in DOMAIN s : s[i] = v})

\* C17: for any finite graph every vertex reachable from the origin is
\* enqueued, passed to DiscoverVertex and passed to ExamineVertex exactly
\* once by BreadthFirstSearch, the target of an edge being marked
\* discovered when it is enqueued.
C17_EachVertexOnce ==
  /\ traversal.pc \in {"loop", "returned"} =>
       \A v \in Vertices :
          /\ Calls(traversal.pushed, v) <= 1
          /\ Calls(traversal.discovered, v) <= 1
          /\ Calls(traversal.examined, v) <= 1
  /\ traversal.pc = "returned" =>
       \A v \in ReachableFrom(traversal.graph, {origin_vertex}) :
          /\ Calls(traversal.pushed, v) = 1
          /\ Calls(traversal.discovered, v) = 1
          /\ Calls(traversal.examined, v) = 1

\* Every vertex has at most one incoming edge and the origin has none.
IsTree(graph) ==
  /\ \A v \in Vertices : origin_vertex \notin graph[v]
  /\ \A v, w \in Vertices : v # w => graph[v] \cap graph[w] = {}

\* C17 for the graphs in which no vertex has two incoming edges.
C17_TreeEachVertexOnce ==
  (traversal.pc \in {"loop", "returned"} /\ IsTree(traversal.graph)) =>
     C17_EachVertexOnce

\* FixedSet::set_hash has returned.
SetHashReturned ==
  fs.pc \in {"buckets", "bucket_set_hash", "bucket_fill", "initialized",
             "trapped"}

\* The two rehash loops have exited as they should: the squared bucket
\* sizes sum to at most 10 * number_of_buckets_, and the hash of the bucket
\* being filled sends its numbers to pairwise different slots.
LoopsExitRight ==
  /\ SetHashReturned =>
       SquaredTotalSize(fs.buckets_numbers, 1) <=
         total_buckets_size_factor_ * fs.number_of_buckets_
  /\ fs.pc = "bucket_fill" =>
       ~check_if_need_rehashing(fs.bucket,
                                fs.buckets_numbers[Len(fs.buckets_) + 1])

\* C21: with a fair generator FixedSet::Initialize returns for every input
\* vector of integers, the loop of FixedSet::set_hash exiting with the sum
\* of squared bucket sizes at most 10 * number_of_buckets_ and the loop of
\* Bucket::set_hash with a hash that separates the bucket's numbers.
C21_InitializeTerminates ==
  /\ []LoopsExitRight
  /\ <>(fs.pc = "initialized")

\* C21 for the vectors of pairwise distinct numbers.
C21_DistinctInitializeTerminates ==
  /\ []LoopsExitRight
  /\ PairwiseDistinct(fs.numbers) => <>(fs.pc = "initialized")

====
